---- MODULE Spec2Model ----
(***************************************************************************)
(* Single-qubit simulator (src/src/main.rs): Complex, Qubit, QuantumGate.  *)
(* Every f64 of the program is modelled as an IEEE-754 binary64 value with *)
(* round-to-nearest-even arithmetic, so that rounding, overflow, underflow *)
(* and NaN behave as they do in the compiled program.                      *)
(***************************************************************************)
EXTENDS Integers, Sequences, FiniteSets, TLC

(***************************************************************************)
(* Natural numbers of any size, needed for 53-bit significands and their   *)
(* 106-bit products: little-endian sequences of limbs, no high zero limb.  *)
(***************************************************************************)
LimbBits == 15
LimbBase == 2^LimbBits

\* the value of Op at the value of x (at those of x and y): the argument is
\* evaluated once and named, as a let binding of the program does
Bind(x, Op(_)) == CHOOSE r \in {Op(v) : v \in {x}} : TRUE

Bind2(x, y, Op(_, _)) == CHOOSE r \in {Op(u, v) : u \in {x}, v \in {y}} : TRUE

Limb(x, i) == IF i <= Len(x) THEN x[i] ELSE 0

\* index of the highest non-zero limb, 0 if there is none
BTop(x) == CHOOSE k \in 0..Len(x) : (k = 0 \/ x[k] # 0) /\ \A j \in (k + 1)..Len(x) : x[j] = 0

BNorm(x) == Bind(x, LAMBDA v : SubSeq(v, 1, BTop(v)))

\* the carry into limb i of x + y: some lower limb overflows and every limb
\* between passes the carry on
BCarry(x, y, i) ==
  \E j \in 1..(i - 1) :
    /\ Limb(x, j) + Limb(y, j) >= LimbBase
    /\ \A k \in (j + 1)..(i - 1) : Limb(x, k) + Limb(y, k) = LimbBase - 1

BAdd(x, y) ==
  Bind2(x, y, LAMBDA u, v :
    BNorm([i \in 1..((IF Len(u) > Len(v) THEN Len(u) ELSE Len(v)) + 1) |->
             (Limb(u, i) + Limb(v, i) + (IF BCarry(u, v, i) THEN 1 ELSE 0)) % LimbBase]
          \o <<>>))

\* the borrow from limb i of x - y
BBorrow(x, y, i) ==
  \E j \in 1..(i - 1) :
    /\ x[j] < Limb(y, j)
    /\ \A k \in (j + 1)..(i - 1) : x[k] = Limb(y, k)

\* x - y for x >= y
BSub(x, y) ==
  Bind2(x, y, LAMBDA u, v :
    BNorm([i \in 1..Len(u) |->
             (u[i] - Limb(v, i) - (IF BBorrow(u, v, i) THEN 1 ELSE 0)) % LimbBase]
          \o <<>>))

\* x > y for x and y of the same length
BGt(x, y) == \E i \in 1..Len(x) : x[i] > y[i] /\ \A k \in (i + 1)..Len(x) : x[k] = y[k]

\* -1, 0 or 1 as x is below, equal to or above y
BCmp(x, y) ==
  CASE Len(x) > Len(y) -> 1
    [] Len(x) < Len(y) -> -1
    [] BGt(x, y) -> 1
    [] BGt(y, x) -> -1
    [] OTHER -> 0

\* x * d for a single limb d (d = LimbBase allowed): the low halves of the
\* limb products plus their high halves one limb up
BMulLimb(x, d) ==
  BAdd([i \in 1..Len(x) |-> (x[i] * d) % LimbBase] \o <<>>,
       <<0>> \o [i \in 1..Len(x) |-> (x[i] * d) \div LimbBase])

RECURSIVE BMulAt(_, _, _)
BMulAt(x, y, i) ==
  IF i > Len(y) THEN <<>>
  ELSE BAdd(BMulLimb(x, y[i]), <<0>> \o BMulAt(x, y, i + 1))

BMul(x, y) == Bind2(x, y, LAMBDA u, v : BMulAt(u, v, 1))

\* x * 2^k
BShl(x, k) ==
  Bind2(x, k, LAMBDA u, v :
    IF Len(u) = 0 THEN u
    ELSE [i \in 1..(v \div LimbBits) |-> 0] \o BMulLimb(u, 2^(v % LimbBits)))

\* limb i of x \div 2^(q * LimbBits + r)
BShrLimb(x, q, r, i) ==
  (x[i + q] \div 2^r) + (Limb(x, i + q + 1) % 2^r) * 2^(LimbBits - r)

\* x \div 2^k
BShr(x, k) ==
  Bind2(x, k, LAMBDA u, v :
    IF Len(u) <= v \div LimbBits THEN <<>>
    ELSE BNorm([i \in 1..(Len(u) - v \div LimbBits) |->
                  BShrLimb(u, v \div LimbBits, v % LimbBits, i)] \o <<>>))

LimbLen(t) == CHOOSE k \in 0..LimbBits : 2^k > t /\ (k = 0 \/ 2^(k - 1) <= t)

\* number of significant bits of x
BBitLen(x) == IF Len(x) = 0 THEN 0 ELSE (Len(x) - 1) * LimbBits + LimbLen(x[Len(x)])

\* bit i of x, bit 0 the lowest
BBit(x, i) == (Limb(x, i \div LimbBits + 1) \div 2^(i % LimbBits)) % 2

\* some bit of x below bit k is set
BLowNonzero(x, k) ==
  \E i \in 1..Len(x) :
    \/ i * LimbBits <= k /\ x[i] # 0
    \/ (i - 1) * LimbBits < k /\ k < i * LimbBits /\ x[i] % 2^(k - (i - 1) * LimbBits) # 0

BOdd(x) == Len(x) > 0 /\ x[1] % 2 = 1

\* the value of x, for x < 2^30
BToInt(x) == Limb(x, 1) + Limb(x, 2) * LimbBase

\* the limbs of n, for 0 <= n < 2^30
BFromInt(n) == BNorm(<<n % LimbBase, n \div LimbBase>>)

\* one limb of a long division: <<r \div d, r % d>> for r < d * LimbBase.
\* The digit is estimated from the leading bits of r and d (never too
\* large, at most 4 too small) and then corrected.
BDivDigit(r, d) ==
  Bind(r, LAMBDA rv :
    IF BCmp(rv, d) < 0 THEN <<0, rv>>
    ELSE IF BBitLen(d) <= LimbBits
    THEN <<BToInt(rv) \div BToInt(d), BFromInt(BToInt(rv) % BToInt(d))>>
    ELSE Bind(BToInt(BShr(rv, BBitLen(d) - LimbBits))
                \div (BToInt(BShr(d, BBitLen(d) - LimbBits)) + 1),
              LAMBDA q0 :
                LET q == CHOOSE t \in q0..(q0 + 4) :
                           /\ BCmp(BMulLimb(d, t), rv) <= 0
                           /\ BCmp(BMulLimb(d, t + 1), rv) > 0
                IN  <<q, BSub(rv, BMulLimb(d, q))>>))

\* long division, one limb per step from the highest: q holds the quotient
\* limbs found so far and r the remainder of the limbs consumed.  The top
\* Len(d) - 1 limbs of n are below d and start as the remainder.
RECURSIVE BDivLimbs(_, _, _, _)
BDivLimbs(n, d, q, r) ==
  IF Len(q) > Len(n) - Len(d) THEN <<BNorm(q), r>>
  ELSE Bind(BDivDigit(BNorm(<<n[Len(n) - Len(d) + 1 - Len(q)]>> \o r), d),
            LAMBDA dr : BDivLimbs(n, d, <<dr[1]>> \o q, dr[2]))

\* <<n \div d, n % d>> for d > 0
BDivMod(n, d) ==
  Bind2(n, d, LAMBDA u, v :
    IF Len(u) < Len(v) THEN <<<<>>, u>>
    ELSE BDivLimbs(u, v, <<>>, SubSeq(u, Len(u) - Len(v) + 2, Len(u))))

\* integer square root of t < 2^30 by Newton's iteration from x above it
RECURSIVE ISqrtNewton(_, _)
ISqrtNewton(t, x) ==
  IF t \div x >= x THEN x ELSE ISqrtNewton(t, (x + t \div x) \div 2)

\* an even number of low bits of n to set aside so that at most 30 remain
BSqrtShift(n) ==
  IF BBitLen(n) <= 30 THEN 0 ELSE 2 * ((BBitLen(n) - 30 + 1) \div 2)

\* a start for the square root of n, above the root: from the root of the
\* leading 30 bits
BSqrtStart(n) ==
  BShl(BFromInt(ISqrtNewton(BToInt(BShr(n, BSqrtShift(n))), LimbBase) + 1),
       BSqrtShift(n) \div 2)

\* Newton's iteration x := (x + n \div x) \div 2 from a start above the
\* root: it descends, and stops at the largest r with r * r <= n
RECURSIVE BSqrtNewton(_, _)
BSqrtNewton(n, x) ==
  Bind(BShr(BAdd(x, BDivMod(n, x)[1]), 1), LAMBDA x1 :
    IF BCmp(x1, x) >= 0 THEN x ELSE BSqrtNewton(n, x1))

\* <<r, n - r * r>> for the integer square root r of n > 0
BSqrtRem(n) ==
  Bind2(n, BSqrtStart(n), LAMBDA nv, x0 :
    Bind(BSqrtNewton(nv, x0), LAMBDA r : <<r, BSub(nv, BMul(r, r))>>))

(***************************************************************************)
(* f64: IEEE-754 binary64.  A value is NaN, an infinity, or finite with    *)
(* value (-1)^s * m * 2^e, where m < 2^53; a normal value has a 53-bit m,  *)
(* a subnormal one has e = MinExp, and zero has m = <<>> and e = 0.        *)
(***************************************************************************)
Precision == 53
MinExp == 0 - 1074
MaxExp == 971

NaN == [c |-> "nan", s |-> 0, e |-> 0, m |-> <<>>]
Inf(s) == [c |-> "inf", s |-> s, e |-> 0, m |-> <<>>]
Zero(s) == [c |-> "fin", s |-> s, e |-> 0, m |-> <<>>]

IsNaN(x) == x.c = "nan"
IsInf(x) == x.c = "inf"
IsZero(x) == x.c = "fin" /\ Len(x.m) = 0
IsFinite(x) == x.c = "fin"

\* bits to drop from n * 2^e to leave Precision bits, or those above MinExp
RoundShift(n, e) ==
  IF e + BBitLen(n) - Precision < MinExp THEN MinExp - e ELSE BBitLen(n) - Precision

\* whether dropping the sh low bits of n, which leaves q, rounds up: the
\* dropped part is above a half, or a half and q is odd
RoundUp(n, sh, q, sticky) ==
  /\ sh > 0
  /\ BBit(n, sh - 1) = 1
  /\ (sticky \/ BLowNonzero(n, sh - 1) \/ BOdd(q))

\* the f64 (-1)^s * m * 2^e for m of at most Precision + 1 bits
Pack(s, m, e) ==
  CASE Len(m) = 0 -> Zero(s)
    [] BBitLen(m) > Precision /\ e + 1 > MaxExp -> Inf(s)
    [] BBitLen(m) > Precision -> [c |-> "fin", s |-> s, e |-> e + 1, m |-> BShr(m, 1)]
    [] e > MaxExp -> Inf(s)
    [] OTHER -> [c |-> "fin", s |-> s, e |-> e, m |-> m]

\* round-to-nearest, ties-to-even, of (-1)^s * n * 2^e (plus a non-zero
\* fraction of the last unit of n when sticky)
Round(s, n, e, sticky) ==
  Bind2(n, e, LAMBDA nv, ev :
    IF Len(nv) = 0 THEN Zero(s)
    ELSE Bind(RoundShift(nv, ev), LAMBDA sh :
           Bind(IF sh > 0 THEN BShr(nv, sh) ELSE BShl(nv, 0 - sh), LAMBDA q :
             Bind(IF RoundUp(nv, sh, q, sticky) THEN BAdd(q, <<1>>) ELSE q, LAMBDA m :
               Pack(s, m, ev + sh)))))

Xor(a, b) == (a + b) % 2

Fneg(x) == Bind(x, LAMBDA u : IF IsNaN(u) THEN u ELSE [u EXCEPT !.s = 1 - u.s])

Fmul(x, y) ==
  Bind2(x, y, LAMBDA u, v :
    CASE IsNaN(u) \/ IsNaN(v) -> NaN
      [] (IsInf(u) /\ IsZero(v)) \/ (IsZero(u) /\ IsInf(v)) -> NaN
      [] IsInf(u) \/ IsInf(v) -> Inf(Xor(u.s, v.s))
      [] IsZero(u) \/ IsZero(v) -> Zero(Xor(u.s, v.s))
      [] OTHER -> Round(Xor(u.s, v.s), BMul(u.m, v.m), u.e + v.e, FALSE))

\* x + y for finite non-zero x and y whose exponents differ by at most
\* Precision + 2: the exact sum, rounded
FaddFinite(x, y) ==
  LET e == IF x.e < y.e THEN x.e ELSE y.e
  IN  Bind2(BShl(x.m, x.e - e), BShl(y.m, y.e - e), LAMBDA a, b :
        CASE x.s = y.s -> Round(x.s, BAdd(a, b), e, FALSE)
          [] x.s # y.s /\ BCmp(a, b) = 0 -> Zero(0)
          [] x.s # y.s /\ BCmp(a, b) > 0 -> Round(x.s, BSub(a, b), e, FALSE)
          [] OTHER -> Round(y.s, BSub(b, a), e, FALSE))

Fadd(x, y) ==
  Bind2(x, y, LAMBDA u, v :
    CASE IsNaN(u) \/ IsNaN(v) -> NaN
      [] IsInf(u) /\ IsInf(v) -> IF u.s = v.s THEN u ELSE NaN
      [] IsInf(u) -> u
      [] IsInf(v) -> v
      [] IsZero(u) /\ IsZero(v) -> IF u.s = v.s THEN u ELSE Zero(0)
      [] IsZero(u) -> v
      [] IsZero(v) -> u
      [] u.e - v.e > Precision + 2 -> u   \* v is below a quarter ulp of u
      [] v.e - u.e > Precision + 2 -> v
      [] OTHER -> FaddFinite(u, v))

Fsub(x, y) == Fadd(x, Fneg(y))

\* x / y for finite non-zero x and y: a quotient of Precision + 3 or
\* Precision + 4 bits, the remainder only as a sticky bit, rounded
FdivFinite(x, y) ==
  LET k == Precision + 3 + BBitLen(y.m) - BBitLen(x.m)
  IN  Bind(BDivMod(BShl(x.m, k), y.m), LAMBDA qr :
        Round(Xor(x.s, y.s), qr[1], x.e - y.e - k, Len(qr[2]) > 0))

Fdiv(x, y) ==
  Bind2(x, y, LAMBDA u, v :
    CASE IsNaN(u) \/ IsNaN(v) -> NaN
      [] IsInf(u) -> IF IsInf(v) THEN NaN ELSE Inf(Xor(u.s, v.s))
      [] IsInf(v) -> Zero(Xor(u.s, v.s))
      [] IsZero(v) -> IF IsZero(u) THEN NaN ELSE Inf(Xor(u.s, v.s))
      [] IsZero(u) -> Zero(Xor(u.s, v.s))
      [] OTHER -> FdivFinite(u, v))

\* sqrt(x) for finite x > 0: the integer root of the significand shifted to
\* 2 * Precision + 4 bits or more (an even exponent left), rounded
FsqrtFinite(x) ==
  LET k0 == 2 * Precision + 4 - BBitLen(x.m)
      k == IF (x.e - k0) % 2 = 0 THEN k0 ELSE k0 + 1
  IN  Bind(BSqrtRem(BShl(x.m, k)), LAMBDA sr :
        Round(0, sr[1], (x.e - k) \div 2, Len(sr[2]) > 0))

Fsqrt(x) ==
  Bind(x, LAMBDA u :
    CASE IsNaN(u) -> NaN
      [] IsZero(u) -> u
      [] u.s = 1 -> NaN
      [] IsInf(u) -> u
      [] OTHER -> FsqrtFinite(u))

\* |x| compared with |y|, for x and y not NaN: -1, 0 or 1
CmpMag(x, y) ==
  CASE IsInf(x) /\ IsInf(y) -> 0
    [] IsInf(x) -> 1
    [] IsInf(y) -> -1
    [] IsZero(x) /\ IsZero(y) -> 0
    [] IsZero(x) -> -1
    [] IsZero(y) -> 1
    [] x.e > y.e -> 1
    [] x.e < y.e -> -1
    [] OTHER -> BCmp(x.m, y.m)

\* the f64 comparison x < y
Flt(x, y) ==
  Bind2(x, y, LAMBDA u, v :
    CASE IsNaN(u) \/ IsNaN(v) -> FALSE
      [] IsZero(u) /\ IsZero(v) -> FALSE
      [] u.s # v.s -> u.s = 1
      [] u.s = 0 -> CmpMag(u, v) < 0
      [] OTHER -> CmpMag(u, v) > 0)

\* the f64 comparison x == y (NaN differs from itself, -0.0 equals 0.0)
Feq(x, y) ==
  Bind2(x, y, LAMBDA u, v :
    IF IsNaN(u) \/ IsNaN(v) THEN FALSE
    ELSE IF IsZero(u) /\ IsZero(v) THEN TRUE
    ELSE u = v)

\* the f64 nearest to n * 2^e, n an integer below 2^30
F(n, e) ==
  IF n = 0 THEN Zero(0)
  ELSE IF n < 0 THEN Round(1, BFromInt(0 - n), e, FALSE)
  ELSE Round(0, BFromInt(n), e, FALSE)

One == F(1, 0)

(***************************************************************************)
(* Complex (main.rs 4-29)                                                  *)
(***************************************************************************)
Complex_new(real, imag) == [real |-> real, imag |-> imag]

modulus_squared(self) ==
  Fadd(Fmul(self.real, self.real), Fmul(self.imag, self.imag))

Complex_add(self, other) ==
  Complex_new(Fadd(self.real, other.real), Fadd(self.imag, other.imag))

\* a faulty multiplication, the real part summed instead of subtracted
Complex_mul_plus(self, other) ==
  Complex_new(Fadd(Fmul(self.real, other.real), Fmul(self.imag, other.imag)),
              Fadd(Fmul(self.real, other.imag), Fmul(self.imag, other.real)))

Complex_mul(self, other) ==
  Complex_new(Fsub(Fmul(self.real, other.real), Fmul(self.imag, other.imag)),
              Fadd(Fmul(self.real, other.imag), Fmul(self.imag, other.real)))

\* #[derive(PartialEq)] on Complex: both fields equal under the f64 ==
Complex_eq(self, other) == Feq(self.real, other.real) /\ Feq(self.imag, other.imag)

(***************************************************************************)
(* Qubit (main.rs 31-62)                                                   *)
(***************************************************************************)
Qubit_normalize(self) ==
  Bind2(self, Fsqrt(Fadd(modulus_squared(self.state[1]), modulus_squared(self.state[2]))),
        LAMBDA q, norm :
          [state |-> << Complex_new(Fdiv(q.state[1].real, norm), Fdiv(q.state[1].imag, norm)),
                        Complex_new(Fdiv(q.state[2].real, norm), Fdiv(q.state[2].imag, norm)) >>])

Qubit_new(alpha, beta) == Qubit_normalize([state |-> <<alpha, beta>>])

\* a faulty measure, comparing with r <= probability_0
Qubit_measure_le(self, r) ==
  LET probability_0 == modulus_squared(self.state[1])
  IN  IF Flt(r, probability_0) \/ Feq(r, probability_0)
      THEN [qubit |-> [state |-> <<Complex_new(F(1, 0), F(0, 0)), Complex_new(F(0, 0), F(0, 0))>>],
            result |-> 0]
      ELSE [qubit |-> [state |-> <<Complex_new(F(0, 0), F(0, 0)), Complex_new(F(1, 0), F(0, 0))>>],
            result |-> 1]

\* a faulty measure, collapsing to the basis state opposite to the returned bit
Qubit_measure_swap(self, r) ==
  LET probability_0 == modulus_squared(self.state[1])
  IN  IF Flt(r, probability_0)
      THEN [qubit |-> [state |-> <<Complex_new(F(0, 0), F(0, 0)), Complex_new(F(1, 0), F(0, 0))>>],
            result |-> 0]
      ELSE [qubit |-> [state |-> <<Complex_new(F(1, 0), F(0, 0)), Complex_new(F(0, 0), F(0, 0))>>],
            result |-> 1]

\* measure with the draw r: the collapsed qubit and the returned bit
Qubit_measure(self, r) ==
  LET probability_0 == modulus_squared(self.state[1])
  IN  IF Flt(r, probability_0)
      THEN [qubit |-> [state |-> <<Complex_new(F(1, 0), F(0, 0)), Complex_new(F(0, 0), F(0, 0))>>],
            result |-> 0]
      ELSE [qubit |-> [state |-> <<Complex_new(F(0, 0), F(0, 0)), Complex_new(F(1, 0), F(0, 0))>>],
            result |-> 1]

\* #[derive(PartialEq)] on Qubit
Qubit_eq(self, other) ==
  Complex_eq(self.state[1], other.state[1]) /\ Complex_eq(self.state[2], other.state[2])

(***************************************************************************)
(* QuantumGate (main.rs 64-87)                                             *)
(***************************************************************************)
QuantumGate_apply(self, qubit) ==
  Bind(<< Complex_add(Complex_mul(self.matrix[1][1], qubit.state[1]),
                      Complex_mul(self.matrix[1][2], qubit.state[2])),
          Complex_add(Complex_mul(self.matrix[2][1], qubit.state[1]),
                      Complex_mul(self.matrix[2][2], qubit.state[2])) >>,
       LAMBDA new_state : Qubit_new(new_state[1], new_state[2]))

\* f64::consts::SQRT_2 = 1.4142135623730951 = 0x16A09E667F3BCD * 2^-52
SQRT_2 == [c |-> "fin", s |-> 0, e |-> 0 - 52, m |-> <<15309, 19710, 633, 181>>]

\* a faulty Hadamard matrix, the sign of the last entry lost
hadamard_gate_unsigned ==
  LET factor == Fdiv(F(1, 0), SQRT_2)
  IN  [matrix |-> << <<Complex_new(factor, F(0, 0)), Complex_new(factor, F(0, 0))>>,
                     <<Complex_new(factor, F(0, 0)), Complex_new(factor, F(0, 0))>> >>]

hadamard_gate ==
  LET factor == Fdiv(F(1, 0), SQRT_2)
  IN  [matrix |-> << <<Complex_new(factor, F(0, 0)), Complex_new(factor, F(0, 0))>>,
                     <<Complex_new(factor, F(0, 0)), Complex_new(Fneg(factor), F(0, 0))>> >>]

(***************************************************************************)
(* The program's state.  qs holds every Qubit value constructed so far, in *)
(* order of construction: Qubit::new and QuantumGate::apply add one,       *)
(* Qubit::measure changes one in place.  ops is the history of the calls   *)
(* made, draws counts the values taken from rand::thread_rng().            *)
(***************************************************************************)
VARIABLES args, gate, qs, ops, draws, a, b, sum, product

vars == <<args, gate, qs, ops, draws, a, b, sum, product>>

MaxOps == 4

Huge == F(1, 600)
Tiny == F(1, 0 - 600)

ZeroC == Complex_new(F(0, 0), F(0, 0))

\* the amplitude pairs handed to Qubit::new
ArgPairs ==
  { <<Complex_new(F(1, 0), F(0, 0)), ZeroC>>,
    <<ZeroC, ZeroC>>,
    <<Complex_new(F(1, 0), F(1, 0)), Complex_new(F(1, 0), F(1, 0))>>,
    <<Complex_new(F(3, 0), F(0, 0)), Complex_new(F(0, 0), F(4, 0))>>,
    <<Complex_new(F(1, 0), F(0, 0)), Complex_new(F(0, 0), F(0 - 3, 0))>>,
    <<ZeroC, Complex_new(F(1, 0), F(0, 0))>>,
    <<Complex_new(Huge, F(0, 0)), ZeroC>>,
    <<Complex_new(Tiny, F(0, 0)), ZeroC>> }

\* a gate that is not unitary: nothing validates the matrix
zero_gate == [matrix |-> << <<ZeroC, ZeroC>>, <<ZeroC, ZeroC>> >>]

Gates == {hadamard_gate, zero_gate}

\* values of rand::thread_rng().gen::<f64>(): multiples of 2^-53 in [0, 1)
Draws == {F(0, 0), F(1, 0 - 1), Fsub(F(1, 0), F(1, 0 - 53))}

\* an entry of ops: the call, the qubit it was made on (its index in qs),
\* that qubit before and the qubit returned or left behind, for measure the
\* draw and the returned bit, and the number of draws taken once it returned
NoOp == [op |-> "none", idx |-> 0, r |-> F(0, 0), bit |-> 0 - 1,
         pre |-> [state |-> <<ZeroC, ZeroC>>], post |-> [state |-> <<ZeroC, ZeroC>>],
         draws |-> 0]

Init ==
  /\ args \in ArgPairs
  /\ gate \in Gates
  /\ qs = <<>>
  /\ ops = <<>>
  /\ draws = 0
  /\ a = ZeroC /\ b = ZeroC /\ sum = <<>> /\ product = <<>>

\* let mut qubit = Qubit::new(alpha, beta)
New ==
  /\ Len(ops) = 0
  /\ qs' = <<Qubit_new(args[1], args[2])>>
  /\ ops' = << [NoOp EXCEPT !.op = "new", !.idx = 1,
                            !.pre = [state |-> <<args[1], args[2]>>],
                            !.post = qs'[1]] >>
  /\ UNCHANGED <<args, gate, draws, a, b, sum, product>>

\* a faulty apply, overwriting the qubit it was given
Apply_in_place(i) ==
  /\ Len(ops) > 0 /\ Len(ops) < MaxOps
  /\ qs' = [qs EXCEPT ![i] = QuantumGate_apply(gate, qs[i])]
  /\ ops' = Append(ops, [NoOp EXCEPT !.op = "apply", !.idx = i,
                                     !.pre = qs[i], !.post = qs'[i],
                                     !.draws = draws])
  /\ UNCHANGED <<args, gate, draws, a, b, sum, product>>

\* gate.apply(&qs[i]): the returned Qubit is a new value
Apply(i) ==
  /\ Len(ops) > 0 /\ Len(ops) < MaxOps
  /\ qs' = Append(qs, QuantumGate_apply(gate, qs[i]))
  /\ ops' = Append(ops, [NoOp EXCEPT !.op = "apply", !.idx = i,
                                     !.pre = qs[i], !.post = qs'[Len(qs')],
                                     !.draws = draws])
  /\ UNCHANGED <<args, gate, draws, a, b, sum, product>>

\* a faulty measure call, taking two draws
Measure_two_draws(i, r) ==
  /\ Len(ops) > 0 /\ Len(ops) < MaxOps
  /\ LET m == Qubit_measure(qs[i], r)
     IN  /\ qs' = [qs EXCEPT ![i] = m.qubit]
         /\ ops' = Append(ops, [NoOp EXCEPT !.op = "measure", !.idx = i, !.r = r,
                                            !.bit = m.result,
                                            !.pre = qs[i], !.post = m.qubit,
                                            !.draws = draws + 2])
  /\ draws' = draws + 2
  /\ UNCHANGED <<args, gate, a, b, sum, product>>

\* qs[i].measure(), the random source yielding r
Measure(i, r) ==
  /\ Len(ops) > 0 /\ Len(ops) < MaxOps
  /\ LET m == Qubit_measure(qs[i], r)
     IN  /\ qs' = [qs EXCEPT ![i] = m.qubit]
         /\ ops' = Append(ops, [NoOp EXCEPT !.op = "measure", !.idx = i, !.r = r,
                                            !.bit = m.result,
                                            !.pre = qs[i], !.post = m.qubit,
                                            !.draws = draws + 1])
  /\ draws' = draws + 1
  /\ UNCHANGED <<args, gate, a, b, sum, product>>

Next ==
  \/ New
  \/ \E i \in DOMAIN qs : Apply(i)
  \/ \E i \in DOMAIN qs : \E r \in Draws : Measure(i, r)

Spec == Init /\ [][Next]_vars

(***************************************************************************)
(* Complex arithmetic on its own: operands a and b, sum = <<a.add(b),      *)
(* b.add(a)>> and product = <<a.mul(b), b.mul(a)>> once computed.          *)
(***************************************************************************)
Third == Fdiv(F(1, 0), F(3, 0))

CReals == {F(1, 0), F(2, 0), F(3, 0), F(4, 0), Third, Huge}

CValues == {Complex_new(x, y) : x \in CReals, y \in CReals}

InitC ==
  /\ a \in CValues
  /\ b \in CValues
  /\ sum = <<>>
  /\ product = <<>>
  /\ args = <<ZeroC, ZeroC>> /\ gate = zero_gate /\ qs = <<>> /\ ops = <<>> /\ draws = 0

Add ==
  /\ sum = <<>>
  /\ sum' = <<Complex_add(a, b), Complex_add(b, a)>>
  /\ UNCHANGED <<a, b, product, args, gate, qs, ops, draws>>

Mul ==
  /\ product = <<>>
  /\ product' = <<Complex_mul(a, b), Complex_mul(b, a)>>
  /\ UNCHANGED <<a, b, sum, args, gate, qs, ops, draws>>

NextC == Add \/ Mul

SpecC == InitC /\ [][NextC]_vars

(***************************************************************************)
(* Vocabulary of the properties.                                           *)
(***************************************************************************)
Fabs(x) == IF IsNaN(x) THEN x ELSE [x EXCEPT !.s = 0]

\* tolerance of "approximately": 2^-30, just below 1e-9
Eps == F(1, 0 - 30)

Half == F(1, 0 - 1)

Near(x, y) == Flt(Fabs(Fsub(x, y)), Eps)

Components(q) == {q.state[1].real, q.state[1].imag, q.state[2].real, q.state[2].imag}

NormSquared(q) == Fadd(modulus_squared(q.state[1]), modulus_squared(q.state[2]))

UnitNorm(q) == Near(NormSquared(q), One)

HasNaN(q) == \E x \in Components(q) : IsNaN(x)

ValidQubit(q) == (\A x \in Components(q) : IsFinite(x)) /\ UnitNorm(q)

ApproxQubit(p, q) ==
  /\ Near(p.state[1].real, q.state[1].real)
  /\ Near(p.state[1].imag, q.state[1].imag)
  /\ Near(p.state[2].real, q.state[2].real)
  /\ Near(p.state[2].imag, q.state[2].imag)

IsZeroVector(pair) ==
  /\ IsZero(pair[1].real) /\ IsZero(pair[1].imag)
  /\ IsZero(pair[2].real) /\ IsZero(pair[2].imag)

Basis0 == [state |-> <<Complex_new(F(1, 0), F(0, 0)), Complex_new(F(0, 0), F(0, 0))>>]

Basis1 == [state |-> <<Complex_new(F(0, 0), F(0, 0)), Complex_new(F(1, 0), F(0, 0))>>]

Measures(k) == {j \in 1..k : ops[j].op = "measure"}

\* index in qs of the qubit that call k created
Created(k) == Cardinality({j \in 1..k : ops[j].op \in {"new", "apply"}})

LastOp == ops[Len(ops)]

\* the arguments of the driver: Qubit::new(Complex(1,0), Complex(0,0))
MainArgs == <<Complex_new(F(1, 0), F(0, 0)), Complex_new(F(0, 0), F(0, 0))>>

\* the run of main: Qubit::new(|0>), hadamard.apply(&qubit), measure of the result
DriverRun ==
  /\ args = MainArgs /\ gate = hadamard_gate /\ Len(ops) = 3
  /\ ops[1].op = "new"
  /\ ops[2].op = "apply" /\ ops[2].idx = 1
  /\ ops[3].op = "measure" /\ ops[3].idx = 2

(***************************************************************************)
(* C2.  Measurement rule: a measure call with draw r and                   *)
(* p0 = |amplitude0|^2 returns 0 and leaves exactly [(1,0),(0,0)] when     *)
(* r < p0, and otherwise returns 1 and leaves exactly [(0,0),(1,0)]; with  *)
(* p0 = 0.5 it returns 0 for draws below 0.5 and 1 for draws at or above   *)
(* 0.5; the returned bit names the basis state the qubit is left in.       *)
(***************************************************************************)
C2_MeasurementRule ==
  \A k \in DOMAIN ops : ops[k].op = "measure" =>
    LET p0 == modulus_squared(ops[k].pre.state[1])
    IN  /\ Flt(ops[k].r, p0) => ops[k].bit = 0 /\ ops[k].post = Basis0
        /\ ~Flt(ops[k].r, p0) => ops[k].bit = 1 /\ ops[k].post = Basis1
        /\ Feq(p0, Half) => (ops[k].bit = 0 <=> Flt(ops[k].r, Half))
        /\ ops[k].bit \in {0, 1}
        /\ ops[k].bit = 0 <=> ops[k].post = Basis0
        /\ k = Len(ops) => qs[ops[k].idx] = ops[k].post

\* an equal-probability state measured with the draw 0.5 itself: the bit is 1
C2_Witness ==
  \E k \in DOMAIN ops :
    /\ ops[k].op = "measure"
    /\ Feq(modulus_squared(ops[k].pre.state[1]), Half)
    /\ Feq(ops[k].r, Half)
    /\ ops[k].bit = 1 /\ ops[k].post = Basis1

(***************************************************************************)
(* C4.  Measurement is idempotent: two measure calls in a row on the same  *)
(* qubit return the same bit, whatever the two draws, and the second       *)
(* leaves the basis state the first left.                                  *)
(***************************************************************************)
C4_MeasureIdempotent ==
  \A k \in 2..Len(ops) :
    (ops[k].op = "measure" /\ ops[k - 1].op = "measure" /\ ops[k].idx = ops[k - 1].idx) =>
      /\ ops[k].bit = ops[k - 1].bit
      /\ ops[k].pre = ops[k - 1].post
      /\ ops[k].post = ops[k - 1].post
      /\ k = Len(ops) => qs[ops[k].idx] = ops[k - 1].post

\* a superposition measured to 0, then measured again with a draw that is
\* above the probability it had before the first call: still 0
C4_Witness ==
  /\ Len(ops) >= 3
  /\ LastOp.op = "measure" /\ ops[Len(ops) - 1].op = "measure"
  /\ LastOp.idx = ops[Len(ops) - 1].idx
  /\ ops[Len(ops) - 1].pre # Basis0
  /\ ops[Len(ops) - 1].bit = 0
  /\ ~Flt(LastOp.r, modulus_squared(ops[Len(ops) - 1].pre.state[1]))
  /\ LastOp.bit = 0

(***************************************************************************)
(* C6.  Gate application has no effect on its inputs: an apply step leaves *)
(* every existing qubit, the gate and the number of draws as they were and *)
(* adds a separate Qubit value; a step that changes an existing qubit is a *)
(* measure call.                                                           *)
(***************************************************************************)
C6_ApplyFrame ==
  [][ /\ (Len(ops') = Len(ops) + 1 /\ ops'[Len(ops')].op = "apply") =>
           /\ Len(qs') = Len(qs) + 1
           /\ \A i \in DOMAIN qs : qs'[i] = qs[i]
           /\ gate' = gate
           /\ draws' = draws
      /\ (\E i \in DOMAIN qs : i \in DOMAIN qs' /\ qs'[i] # qs[i]) =>
           /\ ops'[Len(ops')].op = "measure"
           /\ draws' = draws + 1 ]_vars

\* a gate application whose result differs from its input, the input still
\* holding the value it had
C6_Witness ==
  /\ Len(ops) >= 2
  /\ LastOp.op = "apply"
  /\ LastOp.post # LastOp.pre
  /\ qs[LastOp.idx] = LastOp.pre
  /\ qs[Len(qs)] = LastOp.post

(***************************************************************************)
(* C7.  Self-inverse round trip: the Hadamard gate applied to a valid      *)
(* (finite, unit-norm) qubit and then to the result returns amplitudes     *)
(* that equal the original ones up to the floating-point tolerance.        *)
(***************************************************************************)
C7_HadamardTwice ==
  gate = hadamard_gate =>
    \A k \in 2..Len(ops) :
      (/\ ops[k].op = "apply" /\ ops[k - 1].op = "apply"
       /\ ops[k].idx = Created(k - 1)
       /\ ValidQubit(ops[k - 1].pre)) =>
        /\ ops[k].pre = ops[k - 1].post
        /\ ApproxQubit(ops[k].post, ops[k - 1].pre)

\* a round trip that does not give back the original bits exactly
C7_Witness ==
  /\ gate = hadamard_gate /\ Len(ops) >= 3
  /\ LastOp.op = "apply" /\ ops[Len(ops) - 1].op = "apply"
  /\ LastOp.idx = Created(Len(ops) - 1)
  /\ ValidQubit(ops[Len(ops) - 1].pre)
  /\ LastOp.post # ops[Len(ops) - 1].pre
  /\ ApproxQubit(LastOp.post, ops[Len(ops) - 1].pre)

(***************************************************************************)
(* C9.  Randomness accounting: after every call the number of draws taken  *)
(* equals the number of measure calls made so far; new and apply take      *)
(* none; the driver takes exactly one, after the gate application.         *)
(***************************************************************************)
C9_DrawAccounting ==
  /\ draws = Cardinality(Measures(Len(ops)))
  /\ \A k \in DOMAIN ops : ops[k].draws = Cardinality(Measures(k))
  /\ DriverRun => ops[2].draws = 0 /\ ops[3].draws = 1 /\ draws = 1

\* the driver's run, complete
C9_Witness == DriverRun /\ draws = 1 /\ LastOp.bit \in {0, 1}

(***************************************************************************)
(* C1.  Unit-norm invariant over sequences: built from a non-zero          *)
(* amplitude pair, after any sequence of apply and measure calls every     *)
(* observable qubit is finite with |amplitude0|^2 + |amplitude1|^2 = 1     *)
(* (up to the tolerance); no step yields a NaN or zero-norm state.         *)
(***************************************************************************)
C1_UnitNormInvariant ==
  ~IsZeroVector(args) => \A i \in DOMAIN qs : ValidQubit(qs[i])

(***************************************************************************)
(* C3.  Construction normalizes: for a pair that is not the zero vector,   *)
(* Qubit::new returns every component divided by                           *)
(* norm = sqrt(|alpha|^2 + |beta|^2), the result has unit norm, and a pair *)
(* of norm 1 is returned with exactly the same amplitudes.                 *)
(***************************************************************************)
C3_ConstructionNormalizes ==
  (Len(ops) >= 1 /\ ~IsZeroVector(args)) =>
    LET norm == Fsqrt(NormSquared([state |-> args]))
        q == ops[1].post
    IN  /\ q.state[1].real = Fdiv(args[1].real, norm)
        /\ q.state[1].imag = Fdiv(args[1].imag, norm)
        /\ q.state[2].real = Fdiv(args[2].real, norm)
        /\ q.state[2].imag = Fdiv(args[2].imag, norm)
        /\ UnitNorm(q)
        /\ Feq(norm, One) => q.state = args

(***************************************************************************)
(* C5.  Gate application is the normalized matrix-vector product:          *)
(* apply returns Qubit::new(m00*q0 + m01*q1, m10*q0 + m11*q1); the         *)
(* Hadamard gate applied to the qubit built from ((1,0),(0,0)) yields both *)
(* amplitudes == Complex(1.0 / SQRT_2, 0.0), with unit norm.               *)
(***************************************************************************)
C5_GateApplication ==
  \A k \in DOMAIN ops : ops[k].op = "apply" =>
    LET m == gate.matrix
        q == ops[k].pre.state
        expected_factor == Fdiv(F(1, 0), SQRT_2)
    IN  /\ ops[k].post =
             Qubit_new(Complex_add(Complex_mul(m[1][1], q[1]), Complex_mul(m[1][2], q[2])),
                       Complex_add(Complex_mul(m[2][1], q[1]), Complex_mul(m[2][2], q[2])))
        /\ (gate = hadamard_gate /\ ops[k].pre = Qubit_new(MainArgs[1], MainArgs[2])) =>
             /\ Complex_eq(ops[k].post.state[1], Complex_new(expected_factor, F(0, 0)))
             /\ Complex_eq(ops[k].post.state[2], Complex_new(expected_factor, F(0, 0)))
             /\ UnitNorm(ops[k].post)

(***************************************************************************)
(* C8.  Zero-vector construction is not an error: Qubit::new of            *)
(* ((0,0),(0,0)) returns a Qubit whose components are NaN and for which    *)
(* the unit-norm invariant does not hold; every other amplitude pair       *)
(* yields a valid qubit.                                                   *)
(***************************************************************************)
C8_ZeroVectorOnly ==
  Len(ops) >= 1 =>
    IF IsZeroVector(args)
    THEN (\A x \in Components(ops[1].post) : IsNaN(x)) /\ ~UnitNorm(ops[1].post)
    ELSE ValidQubit(ops[1].post)

(***************************************************************************)
(* C10.  Complex arithmetic: a.add(b) = (a_re + b_re, a_im + b_im) and     *)
(* a.mul(b) = (a_re*b_re - a_im*b_im, a_re*b_im + a_im*b_re);              *)
(* (1,2)+(3,4) = (4,6) and (1,2)*(3,4) = (-5,10); a.add(b) and b.add(a),   *)
(* a.mul(b) and b.mul(a) have the same components, and are == whenever no  *)
(* component of the result is NaN; the operands are not changed.           *)
(***************************************************************************)
AddFormula == Complex_new(Fadd(a.real, b.real), Fadd(a.imag, b.imag))

MulFormula ==
  Complex_new(Fsub(Fmul(a.real, b.real), Fmul(a.imag, b.imag)),
              Fadd(Fmul(a.real, b.imag), Fmul(a.imag, b.real)))

C12 == Complex_new(F(1, 0), F(2, 0))

C34 == Complex_new(F(3, 0), F(4, 0))

NoNaN(z) == ~IsNaN(z.real) /\ ~IsNaN(z.imag)

C10_Results ==
  /\ sum # <<>> =>
       /\ sum[1] = AddFormula
       /\ sum[2] = sum[1]
       /\ NoNaN(sum[1]) => Complex_eq(sum[1], sum[2])
       /\ (a = C12 /\ b = C34) => Complex_eq(sum[1], Complex_new(F(4, 0), F(6, 0)))
  /\ product # <<>> =>
       /\ product[1] = MulFormula
       /\ product[2] = product[1]
       /\ NoNaN(product[1]) => Complex_eq(product[1], product[2])
       /\ (a = C12 /\ b = C34) =>
            Complex_eq(product[1], Complex_new(Fneg(F(5, 0)), F(10, 0)))

C10_ComplexArithmetic == []C10_Results /\ [][a' = a /\ b' = b]_vars

\* the literal example computed both ways, and a product whose real part
\* is rounded
C10_Witness ==
  /\ sum # <<>> /\ product # <<>>
  /\ \/ a = C12 /\ b = C34 /\ product[1] = Complex_new(Fneg(F(5, 0)), F(10, 0))
     \/ a.real = Third /\ b.real = Third /\ NoNaN(product[1])

\* C10 as stated: a.add(b) == b.add(a) and a.mul(b) == b.mul(a) for all a, b
C10_Commutes ==
  /\ sum # <<>> => sum[1] = AddFormula /\ Complex_eq(sum[1], sum[2])
  /\ product # <<>> => product[1] = MulFormula /\ Complex_eq(product[1], product[2])
====
